---- MODULE Spec2Model ----
(***************************************************************************)
(* A/B-test notebook business-case.ipynb: the event simulator (cell 7),    *)
(* the KPI aggregation (cell 15) and the chi-squared contingency table     *)
(* (cell 20), executed top to bottom, one statement group per step.        *)
(*                                                                         *)
(* Numbers.  Probabilities and the outputs of np.random.rand are held in   *)
(* hundredths (0.15 is 15).  A float produced by a division is a record    *)
(* [k, n, d]: k = "fin" is the fraction n/d in lowest terms, k = "inf",    *)
(* "ninf" and "nan" are the IEEE results of x/0.  Rounding is not          *)
(* modelled.                                                               *)
(*                                                                         *)
(* Generator.  The global NumPy generator is a state [seeded, seed, pos];  *)
(* mt is the output stream that the seed determines, revealed as it is     *)
(* consumed: a draw at a position already revealed returns the revealed    *)
(* value, a draw past the end may return any value of the requested        *)
(* distribution and reveals it.  An unseeded generator (fresh process,     *)
(* OS entropy) returns arbitrary values.                                   *)
(***************************************************************************)
EXTENDS Integers, Sequences, FiniteSets, TLC

VARIABLES pc, run, cfg, rng, mt, di, gi,
          num_views, user_ids, event_types, click_mask, purchase_mask, revenues,
          data_list, data, kpi_data, control_data, treatment_data, cr_table, prev

vars == <<pc, run, cfg, rng, mt, di, gi,
          num_views, user_ids, event_types, click_mask, purchase_mask, revenues,
          data_list, data, kpi_data, control_data, treatment_data, cr_table, prev>>

----------------------------------------------------------------------------
(* Bounds of the model *)

\* days simulated by the multi-day configurations (num_days is 30 in the notebook)
NumDays == 2
\* number of distinct values np.random.uniform can return
RevLevels == 2
\* exclusive upper end of the event count in the configuration "wide"
MaxEvents == 4

----------------------------------------------------------------------------
(* Program constants, cells 5 and 6 *)

seed == 42
revenue_global == TRUE
r_revenue_global == <<20, 200>>
p_click_control == 15
p_purchase_control == 5
r_revenue_control == <<200, 300>>
p_click_treatment == 25
p_purchase_treatment == 10
r_revenue_treatment == <<20, 100>>

\* The simulation parameters of cell 6 with the sizes scaled down: the day
\* count, the user pool and the range of events_per_day are the parameters.
Params(nm, days, grps, nusers, lo, hi, pcc, ppc, pct, ppt) ==
    [name |-> nm, num_days |-> days, groups |-> grps, num_users |-> nusers,
     ev_lo |-> lo, ev_hi |-> hi,
     revenue_global |-> revenue_global, r_revenue_global |-> r_revenue_global,
     p_click_control |-> pcc, p_purchase_control |-> ppc,
     r_revenue_control |-> r_revenue_control,
     p_click_treatment |-> pct, p_purchase_treatment |-> ppt,
     r_revenue_treatment |-> r_revenue_treatment]

BothGroups == <<"control", "treatment">>

\* the notebook's own probabilities, one event per (day, group)
CfgReference ==
    Params("reference", NumDays, BothGroups, 1, 1, 2,
           p_click_control, p_purchase_control,
           p_click_treatment, p_purchase_treatment)
\* the notebook's probabilities, one day, several events in the day
CfgWide ==
    Params("wide", 1, <<"control">>, 1, 2, MaxEvents,
           p_click_control, p_purchase_control,
           p_click_treatment, p_purchase_treatment)
\* spec section 8, first scenario: everything converts, 5 events forced
CfgAllConvert ==
    Params("allconvert", 1, <<"control">>, 1, 5, 6, 100, 100, 100, 100)
\* spec section 8, second scenario: click probability 0, purchase probability 1
CfgNoClick ==
    Params("noclick", NumDays, <<"control">>, 1, 1, 3, 0, 100, 0, 100)
\* two users, two groups: every kind of draw has more than one outcome
CfgRerun ==
    Params("rerun", 1, BothGroups, 2, 1, 2,
           p_click_control, p_purchase_control,
           p_click_treatment, p_purchase_treatment)

Configs == {CfgReference, CfgWide, CfgNoClick}
ScenarioConfigs == {CfgAllConvert}
RerunConfigs == {CfgRerun}

dates(c) == 1..c.num_days
users(c) == 1000..(1000 + c.num_users - 1)

----------------------------------------------------------------------------
(* Floats *)

RECURSIVE GCD(_, _)
GCD(a, b) == IF b = 0 THEN a ELSE GCD(b, a % b)

Fin(n, d) == LET g == GCD(n, d) IN [k |-> "fin", n |-> n \div g, d |-> d \div g]
Inf == [k |-> "inf", n |-> 0, d |-> 0]
NInf == [k |-> "ninf", n |-> 0, d |-> 0]
NaN == [k |-> "nan", n |-> 0, d |-> 0]

\* a / b of two float64 columns holding the integers a and b
Div(a, b) ==
    IF b # 0 THEN Fin(a, b)
    ELSE IF a > 0 THEN Inf
    ELSE IF a < 0 THEN NInf
    ELSE NaN

\* x * m for a positive integer m
Mul(x, m) == IF x.k = "fin" THEN Fin(x.n * m, x.d) ELSE x

\* variant: the infinities are not replaced
ReplaceInfSkipped(x) == x
\* kpi_data.replace([np.inf, -np.inf], np.nan) on one value
ReplaceInf(x) == IF x.k \in {"inf", "ninf"} THEN NaN ELSE x
\* kpi_data.fillna(0) on one value
FillNa(x) == IF x.k = "nan" THEN Fin(0, 1) ELSE x

----------------------------------------------------------------------------
(* The generator *)

\* variant: the call leaves the generator as the process started it
np_random_seed_skipped(s) == [seeded |-> FALSE, seed |-> 0, pos |-> 0]
np_random_seed(s) == [seeded |-> TRUE, seed |-> s, pos |-> 0]
Unseeded == [seeded |-> FALSE, seed |-> 0, pos |-> 0]

\* variant: the upper end is included
RandintInclusive(lo, hi) == lo..hi
\* np.random.randint(lo, hi): an integer of [lo, hi)
RandintOutputs(lo, hi) == lo..(hi - 1)
\* np.random.rand(): a float of [0, 1), in hundredths; two representatives
RandOutputs == {0, 50}
\* np.random.uniform(lo, hi): a float of [lo, hi); RevLevels representatives
UniformOutputs(lo, hi) ==
    {lo + (i * (hi - lo)) \div RevLevels : i \in 0..(RevLevels - 1)}

\* The generator returns the values vs, in this order, and advances.
Yields(vs) ==
    IF rng.seeded
    THEN /\ \A i \in 1..Len(vs) :
              rng.pos + i <= Len(mt) => mt[rng.pos + i] = vs[i]
         /\ mt' = IF rng.pos + Len(vs) > Len(mt)
                  THEN SubSeq(mt, 1, rng.pos) \o vs
                  ELSE mt
         /\ rng' = [rng EXCEPT !.pos = @ + Len(vs)]
    ELSE UNCHANGED <<rng, mt>>

----------------------------------------------------------------------------
(* Cell 7: the event simulator *)

date == di
group == cfg.groups[gi]

GroupParams(c, g) ==
    LET own == IF g = "control"
               THEN [p_click |-> c.p_click_control,
                     p_purchase |-> c.p_purchase_control,
                     r_revenue |-> c.r_revenue_control]
               ELSE [p_click |-> c.p_click_treatment,
                     p_purchase |-> c.p_purchase_treatment,
                     r_revenue |-> c.r_revenue_treatment]
    IN  IF c.revenue_global
        THEN [own EXCEPT !.r_revenue = c.r_revenue_global]
        ELSE own

\* np.array(['view'] * n)
AllViews(n) == [i \in 1..n |-> "view"]

\* np.random.rand(n) < p
ClickMask(r, p) == [i \in DOMAIN r |-> r[i] < p]

\* event_types[mask] = label
Relabel(types, mask, label) ==
    [i \in DOMAIN types |-> IF mask[i] THEN label ELSE types[i]]

\* variant: the purchase draw is not ANDed with the click mask
PurchaseMaskUnconditional(cmask, r, p) == [i \in DOMAIN cmask |-> r[i] < p]
\* click_mask & (np.random.rand(n) < p)
PurchaseMask(cmask, r, p) == [i \in DOMAIN cmask |-> cmask[i] /\ r[i] < p]

\* mask.sum()
MaskSum(mask) == Cardinality({i \in DOMAIN mask : mask[i]})

\* variant: the revenues start from np.ones
AssignRevenuesOnes(mask, draws) ==
    [i \in DOMAIN mask |->
        IF mask[i]
        THEN draws[Cardinality({j \in 1..i : mask[j]})]
        ELSE 1]
\* revenues = np.zeros(n); revenues[mask] = draws: the k-th true position
\* of the mask receives the k-th draw
AssignRevenues(mask, draws) ==
    [i \in DOMAIN mask |->
        IF mask[i]
        THEN draws[Cardinality({j \in 1..i : mask[j]})]
        ELSE 0]

\* pd.DataFrame({...}) of the current day and group
DayData(uids, d, types, g, revs) ==
    [i \in DOMAIN types |->
        [user_id |-> uids[i], date |-> d, event_type |-> types[i],
         group |-> g, revenue |-> revs[i]]]

\* pd.concat(data_list, ignore_index=True)
RECURSIVE Concat(_)
Concat(l) == IF l = <<>> THEN <<>> ELSE Head(l) \o Concat(Tail(l))

Seed ==
    /\ pc = "seed"
    /\ rng' = np_random_seed(seed)
    /\ pc' = "init"
    /\ UNCHANGED <<run, cfg, mt, di, gi, num_views, user_ids, event_types,
                   click_mask, purchase_mask, revenues, data_list, data,
                   kpi_data, control_data, treatment_data, cr_table, prev>>

\* data_list = [] and the entry into the two loops
BeginLoop ==
    /\ pc = "init"
    /\ data_list' = <<>>
    /\ di' = 1
    /\ gi' = 1
    /\ pc' = "views"
    /\ UNCHANGED <<run, cfg, rng, mt, num_views, user_ids, event_types,
                   click_mask, purchase_mask, revenues, data,
                   kpi_data, control_data, treatment_data, cr_table, prev>>

GenerateViews ==
    /\ pc = "views"
    /\ \E n \in RandintOutputs(cfg.ev_lo, cfg.ev_hi) :
       \E u \in [1..n -> users(cfg)] :
          /\ Yields(<<n>> \o u)
          /\ num_views' = n
          /\ user_ids' = u
          /\ event_types' = AllViews(n)
    /\ pc' = "click"
    /\ UNCHANGED <<run, cfg, di, gi, click_mask, purchase_mask, revenues,
                   data_list, data, kpi_data, control_data, treatment_data,
                   cr_table, prev>>

ClickStep ==
    /\ pc = "click"
    /\ \E r \in [1..num_views -> RandOutputs] :
          /\ Yields(r)
          /\ click_mask' = ClickMask(r, GroupParams(cfg, group).p_click)
          /\ event_types' = Relabel(event_types, click_mask', "click")
    /\ pc' = "purchase"
    /\ UNCHANGED <<run, cfg, di, gi, num_views, user_ids, purchase_mask,
                   revenues, data_list, data, kpi_data, control_data,
                   treatment_data, cr_table, prev>>

PurchaseStep ==
    /\ pc = "purchase"
    /\ \E r \in [1..num_views -> RandOutputs] :
          /\ Yields(r)
          /\ purchase_mask' =
                PurchaseMask(click_mask, r, GroupParams(cfg, group).p_purchase)
          /\ event_types' = Relabel(event_types, purchase_mask', "purchase")
    /\ pc' = "revenue"
    /\ UNCHANGED <<run, cfg, di, gi, num_views, user_ids, click_mask,
                   revenues, data_list, data, kpi_data, control_data,
                   treatment_data, cr_table, prev>>

RevenueStep ==
    /\ pc = "revenue"
    /\ LET r_revenue == GroupParams(cfg, group).r_revenue
           num_purchases == MaskSum(purchase_mask)
       IN  \E draws \in [1..num_purchases ->
                            UniformOutputs(r_revenue[1], r_revenue[2])] :
              /\ Yields(draws)
              /\ revenues' = AssignRevenues(purchase_mask, draws)
    /\ pc' = "append"
    /\ UNCHANGED <<run, cfg, di, gi, num_views, user_ids, event_types,
                   click_mask, purchase_mask, data_list, data, kpi_data,
                   control_data, treatment_data, cr_table, prev>>

\* day_data, data_list.append(day_data) and the step of the two loops
AppendDay ==
    /\ pc = "append"
    /\ data_list' = Append(data_list,
                           DayData(user_ids, date, event_types, group, revenues))
    /\ IF gi < Len(cfg.groups)
       THEN /\ gi' = gi + 1
            /\ di' = di
            /\ pc' = "views"
       ELSE IF di < cfg.num_days
       THEN /\ gi' = 1
            /\ di' = di + 1
            /\ pc' = "views"
       ELSE /\ UNCHANGED <<di, gi>>
            /\ pc' = "concat"
    /\ UNCHANGED <<run, cfg, rng, mt, num_views, user_ids, event_types,
                   click_mask, purchase_mask, revenues, data, kpi_data,
                   control_data, treatment_data, cr_table, prev>>

ConcatData ==
    /\ pc = "concat"
    /\ data' = Concat(data_list)
    /\ pc' = "kpi_counts"
    /\ UNCHANGED <<run, cfg, rng, mt, di, gi, num_views, user_ids, event_types,
                   click_mask, purchase_mask, revenues, data_list, kpi_data,
                   control_data, treatment_data, cr_table, prev>>

----------------------------------------------------------------------------
(* Cell 15: KPI aggregation *)

Range(f) == {f[i] : i \in DOMAIN f}

\* the order in which groupby sorts the group labels
GroupOrder == <<"control", "treatment">>

\* the keys of data.groupby(['group', 'date']): the pairs present, sorted
GroupKeys(d) ==
    LET present == {<<r.group, r.date>> : r \in Range(d)}
        last == CHOOSE m \in {k[2] : k \in present} :
                    \A k \in present : k[2] <= m
        all == [i \in 1..(Len(GroupOrder) * last) |->
                   <<GroupOrder[((i - 1) \div last) + 1], ((i - 1) % last) + 1>>]
    IN  IF present = {} THEN <<>> ELSE SelectSeq(all, LAMBDA k : k \in present)

\* the sub-frame x handed to the lambda of apply
GroupRows(d, g, dt) == SelectSeq(d, LAMBDA r : r.group = g /\ r.date = dt)

\* np.sum(x['event_type'] == t)
CountType(x, t) == Len(SelectSeq(x, LAMBDA r : r.event_type = t))

\* x[col].sum()
RECURSIVE SumCol(_, _)
SumCol(x, col) == IF x = <<>> THEN 0 ELSE Head(x)[col] + SumCol(Tail(x), col)

\* the pd.Series built by the lambda, with the key columns of reset_index
KpiCounts(x, g, dt) ==
    [group |-> g, date |-> dt,
     views |-> CountType(x, "view"),
     clicks |-> CountType(x, "click"),
     purchases |-> CountType(x, "purchase"),
     revenue |-> SumCol(x, "revenue")]

CVR(row) == Mul(Div(row.purchases, row.views), 100)
AOV(row) == Div(row.revenue, row.purchases)
CTR(row) == Mul(Div(row.clicks, row.views), 100)

KpiRatios(row) ==
    [group |-> row.group, date |-> row.date, views |-> row.views,
     clicks |-> row.clicks, purchases |-> row.purchases,
     revenue |-> row.revenue,
     CVR |-> CVR(row), AOV |-> AOV(row), CTR |-> CTR(row)]

\* replace([inf, -inf], nan) then fillna(0); the count and revenue columns
\* hold finite numbers, which both calls leave as they are
KpiSanitize(row) ==
    [row EXCEPT !.CVR = FillNa(ReplaceInf(@)),
                !.AOV = FillNa(ReplaceInf(@)),
                !.CTR = FillNa(ReplaceInf(@))]

AggregateCounts ==
    /\ pc = "kpi_counts"
    /\ kpi_data' = LET keys == GroupKeys(data)
                   IN  [i \in DOMAIN keys |->
                          KpiCounts(GroupRows(data, keys[i][1], keys[i][2]),
                                    keys[i][1], keys[i][2])]
    /\ pc' = "kpi_ratios"
    /\ UNCHANGED <<run, cfg, rng, mt, di, gi, num_views, user_ids, event_types,
                   click_mask, purchase_mask, revenues, data_list, data,
                   control_data, treatment_data, cr_table, prev>>

ComputeRatios ==
    /\ pc = "kpi_ratios"
    /\ kpi_data' = [i \in DOMAIN kpi_data |-> KpiRatios(kpi_data[i])]
    /\ pc' = "kpi_fill"
    /\ UNCHANGED <<run, cfg, rng, mt, di, gi, num_views, user_ids, event_types,
                   click_mask, purchase_mask, revenues, data_list, data,
                   control_data, treatment_data, cr_table, prev>>

HandleDivByZero ==
    /\ pc = "kpi_fill"
    /\ kpi_data' = [i \in DOMAIN kpi_data |-> KpiSanitize(kpi_data[i])]
    /\ pc' = "split"
    /\ UNCHANGED <<run, cfg, rng, mt, di, gi, num_views, user_ids, event_types,
                   click_mask, purchase_mask, revenues, data_list, data,
                   control_data, treatment_data, cr_table, prev>>

----------------------------------------------------------------------------
(* Cells 17 and 20: the groups and the contingency table *)

SelectGroup(kpi, g) == SelectSeq(kpi, LAMBDA row : row.group = g)

\* variant: the purchases are not subtracted
NonPurchasesAllViews(gdata) == SumCol(gdata, "views")
NonPurchases(gdata) == SumCol(gdata, "views") - SumCol(gdata, "purchases")

CrTable(cdata, tdata) ==
    <<[Group |-> "Control",
       Purchases |-> SumCol(cdata, "purchases"),
       NonPurchases |-> NonPurchases(cdata)],
      [Group |-> "Treatment",
       Purchases |-> SumCol(tdata, "purchases"),
       NonPurchases |-> NonPurchases(tdata)]>>

SeparateGroups ==
    /\ pc = "split"
    /\ control_data' = SelectGroup(kpi_data, "control")
    /\ treatment_data' = SelectGroup(kpi_data, "treatment")
    /\ pc' = "cr_table"
    /\ UNCHANGED <<run, cfg, rng, mt, di, gi, num_views, user_ids, event_types,
                   click_mask, purchase_mask, revenues, data_list, data,
                   kpi_data, cr_table, prev>>

ContingencyTable ==
    /\ pc = "cr_table"
    /\ cr_table' = CrTable(control_data, treatment_data)
    /\ pc' = "done"
    /\ UNCHANGED <<run, cfg, rng, mt, di, gi, num_views, user_ids, event_types,
                   click_mask, purchase_mask, revenues, data_list, data,
                   kpi_data, control_data, treatment_data, prev>>

----------------------------------------------------------------------------
(* A second execution of the notebook in a fresh process *)

Unset == <<>>

Rerun ==
    /\ pc = "done"
    /\ run = 1
    /\ prev' = [data |-> data, kpi_data |-> kpi_data]
    /\ run' = 2
    /\ rng' = Unseeded
    /\ pc' = "seed"
    /\ di' = 0
    /\ gi' = 0
    /\ num_views' = 0
    /\ user_ids' = Unset
    /\ event_types' = Unset
    /\ click_mask' = Unset
    /\ purchase_mask' = Unset
    /\ revenues' = Unset
    /\ data_list' = Unset
    /\ data' = Unset
    /\ kpi_data' = Unset
    /\ control_data' = Unset
    /\ treatment_data' = Unset
    /\ cr_table' = Unset
    /\ UNCHANGED <<cfg, mt>>

----------------------------------------------------------------------------
(* Specifications *)

Fresh ==
    /\ pc = "seed"
    /\ run = 1
    /\ rng = Unseeded
    /\ mt = <<>>
    /\ di = 0
    /\ gi = 0
    /\ num_views = 0
    /\ user_ids = Unset
    /\ event_types = Unset
    /\ click_mask = Unset
    /\ purchase_mask = Unset
    /\ revenues = Unset
    /\ data_list = Unset
    /\ data = Unset
    /\ kpi_data = Unset
    /\ control_data = Unset
    /\ treatment_data = Unset
    /\ cr_table = Unset
    /\ prev = Unset

Init == cfg \in Configs /\ Fresh

Next ==
    \/ Seed
    \/ BeginLoop
    \/ GenerateViews
    \/ ClickStep
    \/ PurchaseStep
    \/ RevenueStep
    \/ AppendDay
    \/ ConcatData
    \/ AggregateCounts
    \/ ComputeRatios
    \/ HandleDivByZero
    \/ SeparateGroups
    \/ ContingencyTable

Spec == Init /\ [][Next]_vars

InitRerun == cfg \in RerunConfigs /\ Fresh

NextRerun == Next \/ Rerun

SpecRerun == InitRerun /\ [][NextRerun]_vars

InitScenario == cfg \in ScenarioConfigs /\ Fresh

SpecScenario == InitScenario /\ [][Next]_vars

----------------------------------------------------------------------------
(* Properties *)

\* the KPI table is complete: the ratios are computed and sanitized
KpiReady == pc \in {"split", "cr_table", "done"}

Zero == [k |-> "fin", n |-> 0, d |-> 1]
Hundred == [k |-> "fin", n |-> 100, d |-> 1]

\* lo <= x <= hi for a float x and integers lo, hi
Between(x, lo, hi) == x.k = "fin" /\ lo * x.d <= x.n /\ x.n <= hi * x.d

RECURSIVE SumSeq(_)
SumSeq(q) == IF q = <<>> THEN 0 ELSE Head(q) + SumSeq(Tail(q))

EventTypes == {"view", "click", "purchase"}

\* C1: in the scenario of one day, the single group control, p_click = 1.0,
\* p_purchase = 1.0 and exactly 5 events, all 5 rows end as purchase and the
\* KPI row has CVR = 100, CTR = 100 and AOV = the mean of the 5 revenues.
C1_AllConvertScenario ==
    (/\ pc = "done"
     /\ cfg.num_days = 1
     /\ cfg.groups = <<"control">>
     /\ cfg.p_click_control = 100
     /\ cfg.p_purchase_control = 100
     /\ Len(data) = 5)
    => /\ \A i \in DOMAIN data : data[i].event_type = "purchase"
       /\ Len(kpi_data) = 1
       /\ kpi_data[1].CVR = Hundred
       /\ kpi_data[1].CTR = Hundred
       /\ kpi_data[1].AOV = Fin(SumSeq(revenues), 5)

\* C2: every KPI row has CVR and CTR in [0, 100] and AOV >= 0.
C2_KpiRanges ==
    KpiReady =>
        \A i \in DOMAIN kpi_data :
            /\ Between(kpi_data[i].CVR, 0, 100)
            /\ Between(kpi_data[i].CTR, 0, 100)
            /\ kpi_data[i].AOV.k = "fin"
            /\ kpi_data[i].AOV.n >= 0

\* C3: in the finished KPI table no value is an infinity or missing; a row
\* with views = 0 has CVR = 0 and CTR = 0, a row with purchases = 0 has
\* AOV = 0; and the substitution step, which runs on the raw ratios, leaves
\* every ratio with a non-zero denominator as it was.
C3_ZeroSubstitution ==
    /\ [](KpiReady =>
            \A i \in DOMAIN kpi_data :
                LET row == kpi_data[i] IN
                /\ row.CVR.k = "fin" /\ row.CTR.k = "fin" /\ row.AOV.k = "fin"
                /\ row.views = 0 => (row.CVR = Zero /\ row.CTR = Zero)
                /\ row.purchases = 0 => row.AOV = Zero)
    /\ [][pc = "kpi_fill" =>
            /\ pc' = "split"
            /\ DOMAIN kpi_data' = DOMAIN kpi_data
            /\ \A i \in DOMAIN kpi_data :
                LET raw == kpi_data[i]
                    row == kpi_data'[i] IN
                /\ raw.views # 0 =>
                     (/\ row.CVR = raw.CVR /\ row.CTR = raw.CTR
                      /\ raw.CVR.n * raw.views = 100 * raw.purchases * raw.CVR.d
                      /\ raw.CTR.n * raw.views = 100 * raw.clicks * raw.CTR.d)
                /\ raw.purchases # 0 =>
                     (/\ row.AOV = raw.AOV
                      /\ raw.AOV.n * raw.purchases = raw.revenue * raw.AOV.d)
                /\ raw.views = 0 => raw.CVR.k \in {"inf", "nan"}
                /\ raw.purchases = 0 => raw.AOV.k = "nan"]_vars

\* a finished KPI table with both kinds of zero division: x/0 and 0/0
C3_Witness ==
    /\ pc = "done"
    /\ \E i \in DOMAIN kpi_data :
          /\ kpi_data[i].views = 0
          /\ kpi_data[i].purchases > 0
          /\ kpi_data[i].CVR = Zero
    /\ \E i \in DOMAIN kpi_data :
          /\ kpi_data[i].views = 0
          /\ kpi_data[i].purchases = 0
          /\ kpi_data[i].CTR = Zero
          /\ kpi_data[i].AOV = Zero

\* C4: every row the simulator produces has an event_type of {view, click,
\* purchase}; its revenue is > 0 exactly when it is a purchase; a view or a
\* click carries revenue 0 and a purchase a revenue of the configured range.
RowShape(r) ==
    LET rr == GroupParams(cfg, r.group).r_revenue IN
    /\ r.event_type \in EventTypes
    /\ (r.revenue > 0) <=> (r.event_type = "purchase")
    /\ r.event_type # "purchase" => r.revenue = 0
    /\ r.event_type = "purchase" => (rr[1] <= r.revenue /\ r.revenue < rr[2])

C4_RowShape ==
    /\ \A k \in DOMAIN data_list : \A i \in DOMAIN data_list[k] :
          RowShape(data_list[k][i])
    /\ \A i \in DOMAIN data : RowShape(data[i])

\* an Event table holding a view, a click and a purchase
C4_Witness ==
    /\ pc = "done"
    /\ \A t \in EventTypes : \E i \in DOMAIN data : data[i].event_type = t

\* C5: for each group, the per-day views counts of the KPI table sum to the
\* number of events generated for the group.
C5_ViewsPartition ==
    pc = "done" =>
        \A g \in Range(cfg.groups) :
            SumCol(SelectGroup(kpi_data, g), "views")
                = Len(SelectSeq(data, LAMBDA r : r.group = g))

\* C6: each row of the contingency table has Purchases equal to the group's
\* purchases and Purchases + Non-Purchases equal to the group's views, both
\* summed over the days of the KPI table.
C6_ContingencyIdentity ==
    pc = "done" =>
        \A i \in DOMAIN cr_table :
            LET g == GroupOrder[i]
                rows == {j \in DOMAIN kpi_data : kpi_data[j].group = g}
                total(col) == SumSeq([j \in 1..Len(kpi_data) |->
                                        IF j \in rows THEN kpi_data[j][col] ELSE 0])
            IN  /\ cr_table[i].Purchases = total("purchases")
                /\ cr_table[i].Purchases + cr_table[i].NonPurchases = total("views")

\* a contingency table over several days with purchases and other events
C6_Witness ==
    /\ pc = "done"
    /\ Len(control_data) >= 2
    /\ Len(treatment_data) >= 2
    /\ cr_table[1].NonPurchases > 0
    /\ cr_table[2].Purchases > 0

\* C7: the generator is seeded before any draw and never again while the
\* notebook runs, each draw is the next value of the seed's stream, and a
\* second run with the same seed and configuration ends with the same Event
\* table and the same KPI table as the first.
C7_Determinism ==
    /\ [](pc # "seed" => (rng.seeded /\ rng.seed = seed))
    /\ [](rng.seeded => (rng.pos <= Len(mt)))
    /\ []((run = 2 /\ pc = "done") =>
            (data = prev.data /\ kpi_data = prev.kpi_data))
    /\ [][(pc # "seed" /\ run' = run) =>
            (/\ rng'.seed = rng.seed
             /\ rng'.pos >= rng.pos
             /\ SubSeq(mt', 1, rng.pos) = SubSeq(mt, 1, rng.pos))]_vars

\* the end of a second run whose table holds a purchase and two users
C7_Witness ==
    /\ run = 2
    /\ pc = "done"
    /\ \E i \in DOMAIN data : data[i].event_type = "purchase"
    /\ \E i, j \in DOMAIN data : data[i].user_id # data[j].user_id
    /\ rng.pos = Len(mt)

\* C8: a group whose click probability is 0 has, on every day, a KPI row
\* with clicks = 0, purchases = 0, CTR = 0, CVR = 0 and AOV = 0.
C8_NoClickScenario ==
    KpiReady =>
        \A i \in DOMAIN kpi_data :
            GroupParams(cfg, kpi_data[i].group).p_click = 0 =>
                /\ kpi_data[i].clicks = 0
                /\ kpi_data[i].purchases = 0
                /\ kpi_data[i].CTR = Zero
                /\ kpi_data[i].CVR = Zero
                /\ kpi_data[i].AOV = Zero

\* a finished KPI table of several days for a group with p_click = 0 and
\* p_purchase = 1, on a day with more than one event
C8_Witness ==
    /\ pc = "done"
    /\ cfg.p_click_control = 0
    /\ cfg.p_purchase_control = 100
    /\ Len(kpi_data) >= 2
    /\ \E i \in DOMAIN kpi_data :
          kpi_data[i].group = "control" /\ kpi_data[i].views >= 2

\* C9: the n rows of a (day, group) pair are created as view, with n in the
\* range of events_per_day; the click step only turns views into clicks, the
\* purchase step only turns rows of the click mask, then labelled click, into
\* purchases; no other step relabels a row, no step adds a row, and the
\* pair's frame holds exactly these n rows.
C9_PromotionOrder ==
    [][/\ pc = "views" =>
            /\ cfg.ev_lo <= num_views' /\ num_views' < cfg.ev_hi
            /\ Len(event_types') = num_views'
            /\ \A i \in DOMAIN event_types' : event_types'[i] = "view"
       /\ pc \in {"click", "purchase", "revenue", "append"} =>
            /\ num_views' = num_views
            /\ DOMAIN event_types' = DOMAIN event_types
            /\ \A i \in DOMAIN event_types :
                  \/ event_types'[i] = event_types[i]
                  \/ /\ pc = "click"
                     /\ event_types[i] = "view"
                     /\ event_types'[i] = "click"
                  \/ /\ pc = "purchase"
                     /\ click_mask[i]
                     /\ event_types[i] = "click"
                     /\ event_types'[i] = "purchase"
       /\ pc = "append" =>
            /\ Len(data_list') = Len(data_list) + 1
            /\ SubSeq(data_list', 1, Len(data_list)) = data_list
            /\ LET day_data == data_list'[Len(data_list')] IN
               /\ Len(day_data) = num_views
               /\ \A i \in DOMAIN day_data :
                     /\ day_data[i].event_type = event_types[i]
                     /\ day_data[i].date = di
                     /\ day_data[i].group = cfg.groups[gi]
       /\ pc = "concat" =>
            /\ Len(data') = SumSeq([k \in DOMAIN data_list |-> Len(data_list[k])])
            /\ Len(data_list) = cfg.num_days * Len(cfg.groups)]_vars

\* a day whose rows ended as a view, a click and a purchase
C9_Witness ==
    /\ pc = "append"
    /\ num_views = 3
    /\ \A t \in EventTypes : \E i \in DOMAIN event_types : event_types[i] = t

\* C10: both entries of every row of the contingency table are >= 0: no
\* group has more purchases than views over the period.
C10_NonNegativeTable ==
    pc = "done" =>
        \A i \in DOMAIN cr_table :
            /\ cr_table[i].Purchases >= 0
            /\ cr_table[i].NonPurchases >= 0

====
